---- MODULE Spec2Model ----
(***************************************************************************)
(* A model of dpkt's IPv6 codec (src/dpkt/ip6.py): the packed-word         *)
(* accessors of IP6, IP6FragmentHeader and IP6RoutingHeader, the six       *)
(* extension-header decoders, the chain walker of IP6.unpack, and the      *)
(* encoder IP6.__bytes__ with its checksum fix-up.                         *)
(*                                                                         *)
(* Bytes are sequences over 0..255.  A 32-bit unsigned value is kept as    *)
(* the set of its one-bits (bit 0 is the least significant), because a     *)
(* 32-bit unsigned value does not fit the model checker's integers; the    *)
(* bit operations of the source are then set operations.                   *)
(***************************************************************************)
EXTENDS Integers, Sequences, FiniteSets, TLC

VARIABLES
    cls,    \* accessor runs: the class of the object whose packed word is used
    word,   \* accessor runs: the packed word (_v_fc_flow, frag_off_resv_m, rsvd_sl_bits)
    acc,    \* accessor runs: the last setter called and its argument
    inp,    \* codec runs: how the input buffer was put together
    buf,    \* codec runs: the bytes handed to IP6(...)
    pkt,    \* codec runs: the IP6 object (or the error its construction raised)
    out,    \* codec runs: what the last bytes(ip) returned or raised
    inserted \* codec runs: the keys stored into ip.extension_hdrs after decoding, in order

vars == <<cls, word, acc, inp, buf, pkt, out, inserted>>

(***************************************************************************)
(* Integers of the source as bit sets.                                     *)
(***************************************************************************)

\* The one-bits of a non-negative integer below 2^31.
BitsOf(n) == {i \in 0..30 : (n \div (2 ^ i)) % 2 = 1}

\* The 32-bit constant whose high half is hi and whose low half is lo.
HexHL(hi, lo) == {i + 16 : i \in BitsOf(hi)} \cup BitsOf(lo)

RECURSIVE ValueOf(_)
\* The integer a bit set stands for (used where it is below 2^31).
ValueOf(S) ==
    IF S = {} THEN 0
    ELSE LET i == CHOOSE j \in S : TRUE IN (2 ^ i) + ValueOf(S \ {i})

\* x << k
Shl(S, k) == {i + k : i \in S}

\* x >> k
Shr(S, k) == {i - k : i \in {j \in S : j >= k}}

\* x & m
BitAnd(S, M) == S \cap M

\* x & ~m  (Python's ~m has every bit above m's set, so & ~m only clears m's bits)
BitAndNot(S, M) == S \ M

\* x | y
BitOr(S, T) == S \cup T

(***************************************************************************)
(* IP6: version / traffic class / flow label in _v_fc_flow.                *)
(***************************************************************************)

IP6_v(w) == ValueOf(Shr(w, 28))

IP6_set_v(w, v) == BitOr(BitAndNot(w, HexHL(61440, 0)), Shl(BitsOf(v), 28))

IP6_fc(w) == ValueOf(BitAnd(Shr(w, 20), BitsOf(255)))

\* A setter that clears the version nibble as well (mask 0xfff00000).
IP6_set_fc_wide(w, v) == BitOr(BitAndNot(w, HexHL(65520, 0)), Shl(BitsOf(v), 20))

IP6_set_fc(w, v) == BitOr(BitAndNot(w, HexHL(4080, 0)), Shl(BitsOf(v), 20))

IP6_flow(w) == ValueOf(BitAnd(w, BitsOf(1048575)))

IP6_set_flow(w, v) == BitOr(BitAndNot(w, BitsOf(1048575)), BitAnd(BitsOf(v), BitsOf(1048575)))

(***************************************************************************)
(* IP6RoutingHeader: strict/loose bitmap in rsvd_sl_bits.                  *)
(***************************************************************************)

sl_bits(w) == ValueOf(BitAnd(w, BitsOf(16777215)))

set_sl_bits(w, v) == BitOr(BitAndNot(w, BitsOf(1048575)), BitAnd(BitsOf(v), BitsOf(1048575)))

(***************************************************************************)
(* IP6FragmentHeader: fragment offset / more-fragments in frag_off_resv_m. *)
(***************************************************************************)

frag_off(w) == ValueOf(Shr(w, 3))

set_frag_off(w, v) == BitOr(BitAndNot(w, BitsOf(65528)), Shl(BitsOf(v), 3))

m_flag(w) == ValueOf(BitAnd(w, BitsOf(1)))

set_m_flag(w, v) == BitOr(BitAndNot(w, BitsOf(65534)), BitsOf(v))

\* The two reserved bits between the offset and the flag (no accessor in the source).
frag_resv(w) == ValueOf(BitAnd(Shr(w, 1), BitsOf(3)))

\* The reserved top byte of rsvd_sl_bits (no accessor in the source).
routing_rsvd(w) == ValueOf(Shr(w, 24))

(***************************************************************************)
(* Byte strings and struct formats (big-endian, dpkt's byte order).        *)
(***************************************************************************)

Min(a, b) == IF a < b THEN a ELSE b

Max(a, b) == IF a > b THEN a ELSE b

\* s[lo:hi] of Python, lo >= 0; a negative hi counts from the end.
PySlice(s, lo, hi) ==
    LET n == Len(s)
        h == IF hi < 0 THEN Max(n + hi, 0) ELSE Min(hi, n)
        l == Min(lo, n)
    IN  IF l >= h THEN <<>> ELSE SubSeq(s, l + 1, h)

\* s[n:] of Python, n >= 0.
Drop(s, n) == PySlice(s, n, Len(s))

\* struct format 'H'
Unpack_H(b) == b[1] * 256 + b[2]

Pack_H(n) == <<n \div 256, n % 256>>

\* struct format 'I'
Unpack_I(b) ==
    Shl(BitsOf(b[1]), 24) \cup Shl(BitsOf(b[2]), 16) \cup Shl(BitsOf(b[3]), 8) \cup BitsOf(b[4])

Pack_I(w) ==
    << ValueOf(BitAnd(Shr(w, 24), BitsOf(255))), ValueOf(BitAnd(Shr(w, 16), BitsOf(255))),
       ValueOf(BitAnd(Shr(w, 8), BitsOf(255))), ValueOf(BitAnd(w, BitsOf(255))) >>

\* An exception raised to the caller.
Raise(e) == [ok |-> FALSE, err |-> e]

\* No call made yet: no object, no result.
NotCalled == [ok |-> FALSE, err |-> "not called"]

(***************************************************************************)
(* Protocol numbers and the extension-header tables.                       *)
(***************************************************************************)

IP_PROTO_HOPOPTS == 0
IP_PROTO_ROUTING == 43
IP_PROTO_FRAGMENT == 44
IP_PROTO_ESP == 50
IP_PROTO_AH == 51
IP_PROTO_DSTOPTS == 60
IP_PROTO_TCP == 6
IP_PROTO_UDP == 17
IP_PROTO_ICMP6 == 58

\* The encoder's list with ESP and AH in numeric order.
ext_hdrs_numeric ==
    << IP_PROTO_HOPOPTS, IP_PROTO_ROUTING, IP_PROTO_FRAGMENT, IP_PROTO_ESP, IP_PROTO_AH,
       IP_PROTO_DSTOPTS >>

ext_hdrs ==
    << IP_PROTO_HOPOPTS, IP_PROTO_ROUTING, IP_PROTO_FRAGMENT, IP_PROTO_AH, IP_PROTO_ESP,
       IP_PROTO_DSTOPTS >>

\* next_ext_hdr in ext_hdrs
InExtHdrs(id) == \E i \in 1..Len(ext_hdrs) : ext_hdrs[i] = id

\* The None of getattr(ext, 'nxt', None).
None == -1

(***************************************************************************)
(* The extension headers.  Each unpack returns the header object (a record *)
(* with ok = TRUE) or the exception it raises.                             *)
(***************************************************************************)

RECURSIVE OptsScan(_, _, _, _)
\* The while loop of IP6OptsHeader.unpack: data is self.data, limit is
\* self.length - 2.  data[index] past the end of data raises IndexError.
OptsScan(data, index, limit, options) ==
    IF ~(index < limit) THEN [ok |-> TRUE, options |-> options]
    ELSE IF index >= Len(data) THEN Raise("IndexError")
    ELSE LET opt_type == data[index + 1] IN
        IF opt_type = 0 THEN OptsScan(data, index + 1, limit, options)
        ELSE IF index + 1 >= Len(data) THEN Raise("IndexError")
        ELSE LET opt_length == data[index + 2] IN
            IF opt_type = 1 THEN OptsScan(data, index + opt_length + 2, limit, options)
            ELSE OptsScan(data, index + opt_length + 2, limit,
                          Append(options,
                                 [type |-> opt_type, opt_length |-> opt_length,
                                  data |-> PySlice(data, index + 2, index + 2 + opt_length)]))

IP6OptsHeader_unpack(c, b) ==
    IF Len(b) < 2 THEN Raise("NeedData")
    ELSE LET data == Drop(b, 2)
             length == (b[2] + 1) * 8
             scan == OptsScan(data, 0, length - 2, <<>>)
         IN  IF ~scan.ok THEN scan
             ELSE [ok |-> TRUE, cls |-> c, nxt |-> b[1], len |-> b[2], data |-> data,
                   length |-> length, options |-> scan.options]

IP6RoutingHeader_unpack(b) ==
    IF Len(b) < 8 THEN Raise("NeedData")
    ELSE LET num_addresses == b[2] \div 2
             data == PySlice(b, 8, 8 + num_addresses * 16)
         IN  [ok |-> TRUE, cls |-> "IP6RoutingHeader", nxt |-> b[1], len |-> b[2],
              type |-> b[3], segs_left |-> b[4], rsvd_sl_bits |-> Unpack_I(SubSeq(b, 5, 8)),
              data |-> data,
              addresses |-> [i \in 1..num_addresses |-> PySlice(data, (i - 1) * 16, (i - 1) * 16 + 16)],
              length |-> b[2] * 8 + 8]

IP6FragmentHeader_unpack(b) ==
    IF Len(b) < 8 THEN Raise("NeedData")
    ELSE [ok |-> TRUE, cls |-> "IP6FragmentHeader", nxt |-> b[1], resv |-> b[2],
          frag_off_resv_m |-> BitsOf(Unpack_H(SubSeq(b, 3, 4))), id |-> Unpack_I(SubSeq(b, 5, 8)),
          length |-> 8, data |-> <<>>]

IP6AHHeader_unpack(b) ==
    IF Len(b) < 12 THEN Raise("NeedData")
    ELSE LET data == Drop(b, 12) IN
         [ok |-> TRUE, cls |-> "IP6AHHeader", nxt |-> b[1], len |-> b[2],
          resv |-> Unpack_H(SubSeq(b, 3, 4)), spi |-> Unpack_I(SubSeq(b, 5, 8)),
          seq |-> Unpack_I(SubSeq(b, 9, 12)), data |-> data,
          length |-> (b[2] + 2) * 4, auth_data |-> PySlice(data, 0, (b[2] - 1) * 4)]

IP6ESPHeader_unpack(b) ==
    IF Len(b) < 8 THEN Raise("NeedData")
    ELSE LET data == Drop(b, 8) IN
         [ok |-> TRUE, cls |-> "IP6ESPHeader", spi |-> Unpack_I(SubSeq(b, 1, 4)),
          seq |-> Unpack_I(SubSeq(b, 5, 8)), data |-> data, length |-> 8 + Len(data)]

\* ext_hdrs_cls[id](buf)
ext_hdrs_cls(id, b) ==
    CASE id = IP_PROTO_HOPOPTS -> IP6OptsHeader_unpack("IP6HopOptsHeader", b)
      [] id = IP_PROTO_ROUTING -> IP6RoutingHeader_unpack(b)
      [] id = IP_PROTO_FRAGMENT -> IP6FragmentHeader_unpack(b)
      [] id = IP_PROTO_ESP -> IP6ESPHeader_unpack(b)
      [] id = IP_PROTO_AH -> IP6AHHeader_unpack(b)
      [] id = IP_PROTO_DSTOPTS -> IP6OptsHeader_unpack("IP6DstOptsHeader", b)

\* pack_hdr() of an extension header: its __hdr__ fields in order.
ExtPackHdr(h) ==
    CASE h.cls \in {"IP6HopOptsHeader", "IP6DstOptsHeader"} -> <<h.nxt, h.len>>
      [] h.cls = "IP6RoutingHeader" ->
            <<h.nxt, h.len, h.type, h.segs_left>> \o Pack_I(h.rsvd_sl_bits)
      [] h.cls = "IP6FragmentHeader" ->
            <<h.nxt, h.resv>> \o Pack_H(ValueOf(h.frag_off_resv_m)) \o Pack_I(h.id)
      [] h.cls = "IP6AHHeader" ->
            <<h.nxt, h.len>> \o Pack_H(h.resv) \o Pack_I(h.spi) \o Pack_I(h.seq)
      [] h.cls = "IP6ESPHeader" -> Pack_I(h.spi) \o Pack_I(h.seq)

\* bytes(ext): Packet.__bytes__, the packed header followed by self.data.
ExtBytes(h) == ExtPackHdr(h) \o h.data

(***************************************************************************)
(* The upper-layer registry and the checksum of dpkt.                      *)
(***************************************************************************)

\* The protocols the registry decodes here.
Registry == {IP_PROTO_TCP, IP_PROTO_UDP, IP_PROTO_ICMP6}

\* Header length and offset of the checksum field of an upper-layer class.
UpperHdrLen(p) == CASE p = IP_PROTO_TCP -> 20 [] p = IP_PROTO_UDP -> 8 [] p = IP_PROTO_ICMP6 -> 4

UpperSumOff(p) == CASE p = IP_PROTO_TCP -> 16 [] p = IP_PROTO_UDP -> 6 [] p = IP_PROTO_ICMP6 -> 2

RawData(b) == [raw |-> TRUE, bytes |-> b]

\* try: self.data = self._protosw[next_ext_hdr](buf)
\* except (KeyError, dpkt.UnpackError): self.data = buf
UpperDecode(p, b) ==
    IF p \notin Registry THEN RawData(b)
    ELSE IF Len(b) < UpperHdrLen(p) THEN RawData(b)
    ELSE [raw |-> FALSE, proto |-> p, pre |-> SubSeq(b, 1, UpperSumOff(p)),
          sum |-> Unpack_H(SubSeq(b, UpperSumOff(p) + 1, UpperSumOff(p) + 2)),
          post |-> Drop(b, UpperSumOff(p) + 2)]

\* bytes(self.data)
DataBytes(d) == IF d.raw THEN d.bytes ELSE d.pre \o Pack_H(d.sum) \o d.post

RECURSIVE in_cksum_add(_, _)
\* The sum of the 16-bit words of b added to s; an odd last byte is padded with zero.
in_cksum_add(s, b) ==
    IF Len(b) = 0 THEN s
    ELSE IF Len(b) = 1 THEN s + b[1] * 256
    ELSE in_cksum_add(s + b[1] * 256 + b[2], Drop(b, 2))

in_cksum_done(s) ==
    LET s1 == (s \div 65536) + (s % 65536)
        s2 == s1 + (s1 \div 65536)
    IN  65535 - (s2 % 65536)

(***************************************************************************)
(* IP6.unpack, IP6.headers_str, IP6.__bytes__.                             *)
(***************************************************************************)

\* self.extension_hdrs[k] = h
Put(hdrs, k, h) == [x \in (DOMAIN hdrs) \cup {k} |-> IF x = k THEN h ELSE hdrs[x]]

\* getattr(ext, 'nxt', None)
ExtNxt(ext) == IF "nxt" \in DOMAIN ext THEN ext.nxt ELSE None

\* A walker that steps over the 8 fixed bytes only.
AdvanceFixed(b, ext) == Drop(b, 8)

\* buf = buf[ext.length:]
Advance(b, ext) == Drop(b, ext.length)

RECURSIVE Walk(_, _, _)
\* The while loop of IP6.unpack.
Walk(next_ext_hdr, b, hdrs) ==
    IF ~InExtHdrs(next_ext_hdr) THEN [ok |-> TRUE, hdrs |-> hdrs, nxt |-> next_ext_hdr, buf |-> b]
    ELSE LET ext == ext_hdrs_cls(next_ext_hdr, b) IN
         IF ~ext.ok THEN ext
         ELSE Walk(ExtNxt(ext), Advance(b, ext), Put(hdrs, next_ext_hdr, ext))

\* IP6(buf): the object, or the exception raised.
IP6_unpack(b) ==
    IF Len(b) < 40 THEN Raise("NeedData")
    ELSE LET plen == Unpack_H(SubSeq(b, 5, 6))
             data == Drop(b, 40)
             region == IF plen /= 0 THEN PySlice(data, 0, plen) ELSE data
             w == Walk(b[7], region, <<>>)
         IN  IF ~w.ok THEN w
             ELSE LET ip == [ok |-> TRUE, v_fc_flow |-> Unpack_I(SubSeq(b, 1, 4)), plen |-> plen,
                             nxt |-> b[7], hlim |-> b[8], src |-> SubSeq(b, 9, 24),
                             dst |-> SubSeq(b, 25, 40), extension_hdrs |-> w.hdrs,
                             data |-> UpperDecode(w.nxt, w.buf)]
                  IN  IF w.nxt /= None THEN [p |-> w.nxt] @@ ip ELSE ip

RECURSIVE HeadersFrom(_, _)
\* The for loop of headers_str from position i of ext_hdrs.
HeadersFrom(hdrs, i) ==
    IF i > Len(ext_hdrs) THEN <<>>
    ELSE (IF ext_hdrs[i] \in DOMAIN hdrs THEN ExtBytes(hdrs[ext_hdrs[i]]) ELSE <<>>)
         \o HeadersFrom(hdrs, i + 1)

headers_str(ip) == HeadersFrom(ip.extension_hdrs, 1)

IP6_pack_hdr(ip) ==
    Pack_I(ip.v_fc_flow) \o Pack_H(ip.plen) \o <<ip.nxt, ip.hlim>> \o ip.src \o ip.dst

\* struct.pack('>16s16sxBH', self.src, self.dst, self.nxt, len(p))
PseudoHeader(src, dst, proto, n) == src \o dst \o <<0, proto>> \o Pack_H(n)

\* The checksum the fix-up stores.
FixupSum(ip) ==
    LET p == DataBytes(ip.data)
        s == PseudoHeader(ip.src, ip.dst, ip.nxt, Len(p))
    IN  in_cksum_done(in_cksum_add(in_cksum_add(0, s), p))

\* bytes(ip): [ok, ip (the object afterwards), bytes], or the exception raised.
IP6_bytes(ip) ==
    IF "p" \notin DOMAIN ip THEN Raise("AttributeError")
    ELSE IF ip.p \in {6, 17, 58} /\ ip.data.raw THEN Raise("AttributeError")
    ELSE LET fixed == IF ip.p \in {6, 17, 58} /\ ip.data.sum = 0
                      THEN [ip EXCEPT !.data.sum = FixupSum(ip)]
                      ELSE ip
         IN  [ok |-> TRUE, ip |-> fixed,
              bytes |-> IP6_pack_hdr(fixed) \o headers_str(fixed) \o DataBytes(fixed.data)]

(***************************************************************************)
(* Input buffers: a fixed header, a chain of extension headers, a payload. *)
(***************************************************************************)

\* The longest chain of extension headers put on the wire.
MaxChain == 2

\* The most headers stored into ip.extension_hdrs after decoding.
MaxInserts == 2

SrcAddr == <<254, 128, 0, 0, 0, 0, 0, 0, 2, 17, 36, 255, 254, 140, 17, 222>>

DstAddr == <<254, 128, 0, 0, 0, 0, 0, 0, 2, 176, 208, 255, 254, 225, 128, 114>>

\* Headers that are whole on the wire.
GoodVariants ==
    { "hop_pad", "hop_tlv", "dst_pad", "dst_tlv", "rt_none", "rt_one", "rt_odd", "frag",
      "ah_min", "ah_icv", "esp" }

\* Headers whose length field claims more bytes than the header was given.
ShortVariants == { "hop_short", "rt_short", "ah_short" }

\* An options header whose only option claims 10 value bytes where 4 are left.
OverrunVariants == { "hop_tlv_over" }

Variants == GoodVariants \cup ShortVariants \cup OverrunVariants

\* The protocol number that announces a header.
VKind(v) ==
    CASE v \in {"hop_pad", "hop_tlv", "hop_short", "hop_tlv_over"} -> IP_PROTO_HOPOPTS
      [] v \in {"dst_pad", "dst_tlv"} -> IP_PROTO_DSTOPTS
      [] v \in {"rt_none", "rt_one", "rt_odd", "rt_short"} -> IP_PROTO_ROUTING
      [] v = "frag" -> IP_PROTO_FRAGMENT
      [] v \in {"ah_min", "ah_icv", "ah_short"} -> IP_PROTO_AH
      [] v = "esp" -> IP_PROTO_ESP

\* The header's bytes on the wire; n is the protocol number of what follows.
VBytes(v, n) ==
    CASE v \in {"hop_pad", "dst_pad"} -> <<n, 0, 1, 4, 0, 0, 0, 0>>
      [] v \in {"hop_tlv", "dst_tlv"} -> <<n, 0, 5, 2, 170, 187, 0, 0>>
      [] v = "hop_tlv_over" -> <<n, 0, 5, 10, 170, 187, 204, 221>>
      [] v = "hop_short" -> <<n, 1, 1, 4, 0, 0, 0, 0>>
      [] v = "rt_none" -> <<n, 0, 0, 0, 0, 0, 0, 0>>
      [] v = "rt_one" -> <<n, 2, 0, 1, 0, 0, 0, 0>> \o DstAddr
      [] v = "rt_odd" -> <<n, 1, 0, 0, 0, 0, 0, 0, 1, 2, 3, 4, 5, 6, 7, 8>>
      [] v = "rt_short" -> <<n, 2, 0, 1, 0, 0, 0, 0>> \o SubSeq(DstAddr, 1, 8)
      [] v = "frag" -> <<n, 0, 0, 9, 0, 0, 255, 255>>
      [] v = "ah_min" -> <<n, 1, 0, 0, 2, 2, 2, 2, 1, 1, 1, 1>>
      [] v = "ah_icv" -> <<n, 2, 0, 0, 2, 2, 2, 2, 1, 1, 1, 1, 120, 120, 120, 120>>
      [] v = "ah_short" -> <<n, 4, 0, 0, 2, 2, 2, 2, 1, 1, 1, 1, 120, 120, 120, 120>>
      [] v = "esp" -> <<0, 0, 1, 0, 0, 0, 0, 68>>

Payloads == {"tcp", "udp", "icmp6", "udp_cut", "none"}

PayProto(x) ==
    CASE x = "tcp" -> IP_PROTO_TCP
      [] x \in {"udp", "udp_cut"} -> IP_PROTO_UDP
      [] x = "icmp6" -> IP_PROTO_ICMP6
      [] x = "none" -> 59

\* The upper-layer bytes; the checksum fields are not zero.
PayBytes(x) ==
    CASE x = "tcp" -> <<205, 202, 0, 22, 4, 132, 70, 213, 0, 0, 0, 0, 80, 2, 255, 255, 248, 9, 0, 0>>
      [] x = "udp" -> <<4, 210, 0, 53, 0, 12, 145, 127, 100, 112, 107, 116>>
      [] x = "udp_cut" -> <<4, 210, 0, 53>>
      [] x = "icmp6" -> <<128, 0, 18, 52, 0, 1, 0, 1>>
      [] x = "none" -> <<>>

RECURSIVE ChainBytes(_, _)
\* The chain's bytes; each header names the next, the last names the payload.
ChainBytes(chain, term) ==
    IF chain = <<>> THEN <<>>
    ELSE VBytes(Head(chain), IF Len(chain) > 1 THEN VKind(chain[2]) ELSE term)
         \o ChainBytes(Tail(chain), term)

\* The buffer of an input: payload_length is the body's length, or 0 (jumbo / TSO).
Build(i) ==
    LET body == ChainBytes(i.chain, PayProto(i.pay)) \o PayBytes(i.pay)
        first == IF i.chain = <<>> THEN PayProto(i.pay) ELSE VKind(i.chain[1])
    IN  <<96, 0, 0, 0>> \o Pack_H(IF i.jumbo THEN 0 ELSE Len(body)) \o <<first, 64>>
        \o SrcAddr \o DstAddr \o body

RECURSIVE ChainsUpTo(_)
\* The chains of at most n headers, no kind twice.
ChainsUpTo(n) ==
    IF n = 0 THEN {<<>>}
    ELSE LET S == ChainsUpTo(n - 1) IN
         S \cup UNION { { Append(c, v) :
                            v \in {u \in Variants : \A j \in 1..Len(c) : VKind(c[j]) /= VKind(u)} } :
                        c \in {x \in S : Len(x) = n - 1} }

Inputs == [chain : ChainsUpTo(MaxChain), pay : Payloads, jumbo : BOOLEAN]

\* The inputs of the runs that store headers into a decoded packet.
InsertInputs ==
    { [chain |-> c, pay |-> "udp", jumbo |-> FALSE] :
        c \in { <<>>, <<"rt_one">>, <<"frag", "rt_none">>, <<"ah_min", "frag">>,
                <<"dst_pad", "hop_tlv">> } }

\* The headers stored into a decoded packet, each built from its own bytes.
InsertVariants == {"hop_tlv", "rt_one", "frag", "ah_icv", "esp", "dst_pad"}

(***************************************************************************)
(* Codec runs: IP6(buf), then ip.data.sum = 0, ip.extension_hdrs[k] = h    *)
(* and bytes(ip) in any order.                                             *)
(***************************************************************************)

AccessorsIdle ==
    /\ cls = "IP6"
    /\ word = HexHL(24576, 0)
    /\ acc = [name |-> "none", arg |-> 0]

AccessorsKept == UNCHANGED <<cls, word, acc>>

Init ==
    /\ inp \in Inputs
    /\ buf = Build(inp)
    /\ pkt = NotCalled
    /\ out = NotCalled
    /\ inserted = <<>>
    /\ AccessorsIdle

InsertInit ==
    /\ inp \in InsertInputs
    /\ buf = Build(inp)
    /\ pkt = NotCalled
    /\ out = NotCalled
    /\ inserted = <<>>
    /\ AccessorsIdle

\* ip = IP6(buf)
Decode ==
    /\ pkt = NotCalled
    /\ pkt' = IP6_unpack(buf)
    /\ UNCHANGED <<inp, buf, out, inserted>>
    /\ AccessorsKept

\* ip.data.sum = 0, on a decoded upper-layer object
ZeroSum ==
    /\ pkt.ok
    /\ ~pkt.data.raw
    /\ pkt' = [pkt EXCEPT !.data.sum = 0]
    /\ UNCHANGED <<inp, buf, out, inserted>>
    /\ AccessorsKept

\* ip.extension_hdrs[k] = Cls(bytes of one header whose next header is 59)
Insert ==
    /\ pkt.ok
    /\ Len(inserted) < MaxInserts
    /\ \E v \in InsertVariants :
        LET h == ext_hdrs_cls(VKind(v), VBytes(v, 59)) IN
        /\ h.ok
        /\ pkt' = [pkt EXCEPT !.extension_hdrs = Put(@, VKind(v), h)]
        /\ inserted' = Append(inserted, VKind(v))
    /\ UNCHANGED <<inp, buf, out>>
    /\ AccessorsKept

\* bytes(ip): the fix-up may change ip.data.sum
Encode ==
    /\ pkt.ok
    /\ LET r == IP6_bytes(pkt) IN
        /\ pkt' = IF r.ok THEN r.ip ELSE pkt
        /\ out' = IF r.ok THEN [ok |-> TRUE, bytes |-> r.bytes] ELSE r
    /\ UNCHANGED <<inp, buf, inserted>>
    /\ AccessorsKept

Next == Decode \/ ZeroSum \/ Encode

Spec == Init /\ [][Next]_vars

InsertNext == Decode \/ Insert \/ Encode

InsertSpec == InsertInit /\ [][InsertNext]_vars

(***************************************************************************)
(* Claims about the codec.                                                 *)
(***************************************************************************)

\* Every header of the input is whole on the wire.
WellFormed(i) == \A j \in 1..Len(i.chain) : i.chain[j] \in GoodVariants

\* The position of a protocol number in the canonical order
\* Hop-by-Hop, Routing, Fragment, Authentication, ESP, Destination Options.
CanonRank(id) ==
    CASE id = 0 -> 1 [] id = 43 -> 2 [] id = 44 -> 3 [] id = 51 -> 4 [] id = 50 -> 5 [] id = 60 -> 6

\* The input's headers are on the wire in the canonical order.
CanonicalWire(i) ==
    \A j, k \in 1..Len(i.chain) :
        j < k => CanonRank(VKind(i.chain[j])) < CanonRank(VKind(i.chain[k]))

\* The last header of the input claims more bytes than the buffer holds, or
\* holds an option that claims more bytes than its header holds; the headers
\* before it are whole and nothing follows it.
Truncated(i) ==
    /\ i.chain /= <<>>
    /\ i.pay = "none"
    /\ i.chain[Len(i.chain)] \in ShortVariants \cup OverrunVariants
    /\ \A j \in 1..(Len(i.chain) - 1) : i.chain[j] \in GoodVariants \ {"esp"}

\* The input's headers up to and including the first ESP header.
RECURSIVE Walked(_)
Walked(chain) ==
    IF chain = <<>> THEN {}
    ELSE IF Head(chain) = "esp" THEN {IP_PROTO_ESP}
    ELSE {VKind(Head(chain))} \cup Walked(Tail(chain))

\* The bytes of header k of a collection, nothing when it is absent.
Piece(hdrs, k) == IF k \in DOMAIN hdrs THEN ExtBytes(hdrs[k]) ELSE <<>>

\* The present headers' bytes in the canonical order.
CanonConcat(hdrs) ==
    Piece(hdrs, 0) \o Piece(hdrs, 43) \o Piece(hdrs, 44) \o Piece(hdrs, 51) \o Piece(hdrs, 50)
    \o Piece(hdrs, 60)

\* The checksum over the pseudo-header built with upper_layer_protocol.
ExpectedSum(ip) ==
    LET p == DataBytes([ip.data EXCEPT !.sum = 0])
    IN  in_cksum_done(in_cksum_add(0, PseudoHeader(ip.src, ip.dst, ip.p, Len(p)) \o p))

\* C1: encoding a packet just decoded from a buffer whose extension headers
\* are whole and in the canonical order returns that buffer, for every
\* kind of extension header and every payload (here: a payload the registry
\* decodes, or one of a protocol it does not know).
C1_RoundTrip ==
    [][ (Encode /\ pkt = IP6_unpack(buf) /\ WellFormed(inp) /\ CanonicalWire(inp)
                /\ inp.pay /= "udp_cut")
            => (out'.ok /\ out'.bytes = buf) ]_vars

\* C2: when upper_layer_protocol is 6, 17 or 58 and the payload's checksum
\* reads zero, encoding stores the checksum of the pseudo-header (source,
\* destination, zero byte, upper_layer_protocol, payload length) followed
\* by the payload, also when extension headers are present.
C2_ChecksumFixup ==
    [][ (Encode /\ "p" \in DOMAIN pkt /\ pkt.p \in {6, 17, 58} /\ ~pkt.data.raw /\ pkt.data.sum = 0)
            => (pkt'.data.sum = ExpectedSum(pkt)) ]_vars

\* C3: when upper_layer_protocol is 6, 17 or 58 and the payload is raw
\* bytes, encoding raises nothing and returns fixed header + extension
\* headers + payload bytes.
C3_FixupNeverFails ==
    [][ (Encode /\ "p" \in DOMAIN pkt /\ pkt.p \in {6, 17, 58} /\ pkt.data.raw)
            => (out'.ok /\ out'.bytes = IP6_pack_hdr(pkt) \o headers_str(pkt) \o pkt.data.bytes) ]_vars

\* C4: each extension header decoded by the chain walker from a buffer that
\* goes on after it re-encodes to exactly byte_length bytes, and (ESP
\* apart) byte_length is the number of bytes of the header on the wire.
C4_LengthInvariant ==
    (pkt.ok /\ WellFormed(inp) /\ inp.pay /= "none") =>
        \A j \in 1..Len(inp.chain) :
            LET k == VKind(inp.chain[j]) IN
            k \in DOMAIN pkt.extension_hdrs =>
                /\ Len(ExtBytes(pkt.extension_hdrs[k])) = pkt.extension_hdrs[k].length
                /\ k /= IP_PROTO_ESP =>
                        pkt.extension_hdrs[k].length = Len(VBytes(inp.chain[j], 0))

\* C5: whatever the order in which extension headers were decoded and
\* stored, the encoder's extension-header section is the present headers'
\* bytes in the order 0, 43, 44, 51, 50, 60, each once, nothing for the
\* absent ones; bytes(ip) is the fixed header, that section, the payload.
C5_CanonicalOrder ==
    [][ /\ pkt'.ok => headers_str(pkt') = CanonConcat(pkt'.extension_hdrs)
        /\ (Encode /\ out'.ok) =>
                out'.bytes = IP6_pack_hdr(pkt') \o CanonConcat(pkt'.extension_hdrs)
                             \o DataBytes(pkt'.data) ]_vars

\* C5 witness: a packet decoded from the wire order Fragment, Routing had
\* ESP and then AH stored into it and was encoded.
C5_Witness ==
    /\ pkt.ok
    /\ inp.chain = <<"frag", "rt_none">>
    /\ inserted = <<IP_PROTO_ESP, IP_PROTO_AH>>
    /\ out.ok
    /\ out.bytes = IP6_pack_hdr(pkt) \o CanonConcat(pkt.extension_hdrs) \o DataBytes(pkt.data)
    /\ DOMAIN pkt.extension_hdrs = {43, 44, 50, 51}

\* C6: decoding a buffer whose last header claims more bytes than remain
\* (routing addresses, AH authentication data, options length, or an
\* option's length) raises an error; no object is returned.
C6_FailFast == (pkt /= NotCalled /\ Truncated(inp)) => ~pkt.ok

StartWords32 ==
    { HexHL(24576, 0),          \* 0x60000000, the default of _v_fc_flow
      {},                       \* 0x00000000
      HexHL(65535, 65535),      \* 0xffffffff
      HexHL(42405, 23130),      \* 0xa5a55a5a
      HexHL(4660, 22136) }      \* 0x12345678

\* 16-bit words a fragment header may hold after unpack (format 'H').
StartWords16 == { BitsOf(0), BitsOf(65535), BitsOf(65531), BitsOf(6), BitsOf(43690) }

VersionArgs == {0, 6, 9, 15}
ClassArgs   == {0, 1, 165, 255}
FlowArgs    == {0, 1, 703710, 1048575}
OffsetArgs  == {0, 1, 5461, 8191}
FlagArgs    == {0, 1}
BitmapArgs  == {0, 1, 1048575, 1048576, 11259375, 16777215}

NoCall == [name |-> "none", arg |-> 0]

\* Codec variables while accessors run.
CodecIdle ==
    /\ inp = [chain |-> <<>>, pay |-> "none", jumbo |-> FALSE]
    /\ buf = <<>>
    /\ pkt = NotCalled
    /\ out = NotCalled
    /\ inserted = <<>>

CodecKept == UNCHANGED <<inp, buf, pkt, out, inserted>>

BitInit ==
    /\ cls \in {"IP6", "IP6FragmentHeader", "IP6RoutingHeader"}
    /\ word \in IF cls = "IP6FragmentHeader" THEN StartWords16 ELSE StartWords32
    /\ acc = NoCall
    /\ CodecIdle

SetV ==
    /\ cls = "IP6"
    /\ \E v \in VersionArgs :
        /\ word' = IP6_set_v(word, v)
        /\ acc' = [name |-> "v", arg |-> v]
    /\ UNCHANGED cls /\ CodecKept

SetFc ==
    /\ cls = "IP6"
    /\ \E v \in ClassArgs :
        /\ word' = IP6_set_fc(word, v)
        /\ acc' = [name |-> "fc", arg |-> v]
    /\ UNCHANGED cls /\ CodecKept

SetFlow ==
    /\ cls = "IP6"
    /\ \E v \in FlowArgs :
        /\ word' = IP6_set_flow(word, v)
        /\ acc' = [name |-> "flow", arg |-> v]
    /\ UNCHANGED cls /\ CodecKept

SetFragOff ==
    /\ cls = "IP6FragmentHeader"
    /\ \E v \in OffsetArgs :
        /\ word' = set_frag_off(word, v)
        /\ acc' = [name |-> "frag_off", arg |-> v]
    /\ UNCHANGED cls /\ CodecKept

SetMFlag ==
    /\ cls = "IP6FragmentHeader"
    /\ \E v \in FlagArgs :
        /\ word' = set_m_flag(word, v)
        /\ acc' = [name |-> "m_flag", arg |-> v]
    /\ UNCHANGED cls /\ CodecKept

SetSlBits ==
    /\ cls = "IP6RoutingHeader"
    /\ \E v \in BitmapArgs :
        /\ word' = set_sl_bits(word, v)
        /\ acc' = [name |-> "sl_bits", arg |-> v]
    /\ UNCHANGED cls /\ CodecKept

BitNext == SetV \/ SetFc \/ SetFlow \/ SetFragOff \/ SetMFlag \/ SetSlBits

BitSpec == BitInit /\ [][BitNext]_vars

(***************************************************************************)
(* Claims about the accessors.                                             *)
(***************************************************************************)

\* C8: on an IP6 whose first word is any 32-bit value, each of the setters
\* v, fc, flow (argument within the field's width) makes its own getter
\* return the argument and leaves the other two getters' values as they
\* were, after any sequence of setter calls.
C8_BitfieldIsolation ==
    [][ /\ acc'.name = "v" =>
            /\ IP6_v(word') = acc'.arg
            /\ IP6_fc(word') = IP6_fc(word)
            /\ IP6_flow(word') = IP6_flow(word)
        /\ acc'.name = "fc" =>
            /\ IP6_fc(word') = acc'.arg
            /\ IP6_v(word') = IP6_v(word)
            /\ IP6_flow(word') = IP6_flow(word)
        /\ acc'.name = "flow" =>
            /\ IP6_flow(word') = acc'.arg
            /\ IP6_v(word') = IP6_v(word)
            /\ IP6_fc(word') = IP6_fc(word) ]_vars

\* C8 witness: the traffic class was just set to 165 on a word that held
\* version 15 and flow label 0xfffff, and all three read back.
C8_Witness ==
    /\ cls = "IP6"
    /\ acc = [name |-> "fc", arg |-> 165]
    /\ IP6_v(word) = 15
    /\ IP6_fc(word) = 165
    /\ IP6_flow(word) = 1048575

\* C9: on a fragment header, setting m_flag to m makes the m_flag getter
\* return m and leaves frag_off and the reserved bits unchanged; setting
\* frag_off to o makes its getter return o and leaves m_flag and the
\* reserved bits unchanged.
C9_FragmentIsolation ==
    [][ /\ acc'.name = "m_flag" =>
            /\ m_flag(word') = acc'.arg
            /\ frag_off(word') = frag_off(word)
            /\ frag_resv(word') = frag_resv(word)
        /\ acc'.name = "frag_off" =>
            /\ frag_off(word') = acc'.arg
            /\ m_flag(word') = m_flag(word)
            /\ frag_resv(word') = frag_resv(word) ]_vars

\* C10: on a routing header, setting sl_bits to b (24 bits) makes the
\* sl_bits getter return b and leaves the reserved byte unchanged.
C10_BitmapInverse ==
    [][ acc'.name = "sl_bits" =>
            /\ sl_bits(word') = acc'.arg
            /\ routing_rsvd(word') = routing_rsvd(word) ]_vars

====
